---- MODULE Spec2Model ----
(***************************************************************************)
(* Model of SmartStatus.js (src/mlondiem-ss.js): status widgets built on   *)
(* jQuery objects, the document body they are appended to, and the global  *)
(* store window._smart_statuses.                                           *)
(*                                                                         *)
(* A jQuery object is an ordered collection of DOM elements: it is         *)
(* modelled as a sequence of nodes.  A getter (attr(name), html()) reads   *)
(* the first element and yields undefined on an empty collection; a setter *)
(* (attr(name, v), html(v), addClass, remove, appendTo, fadeOut) acts on   *)
(* every element and does nothing on an empty collection.                  *)
(*                                                                         *)
(* Every constructor call creates one wrapper element with its three       *)
(* children (spinner span, banner span, close span).  Node n stands for    *)
(* the wrapper created by widget n together with these children: dataId[n] *)
(* is the wrapper's data-id attribute, cls[n] the spinner span's class     *)
(* list, html[n] the banner span's content.                                *)
(*                                                                         *)
(* The position attach copies from the target (css left/top) has no        *)
(* effect on any other state and is left out.  fadeIn and fadeOut are      *)
(* modelled by the state their animation ends in.                          *)
(***************************************************************************)
EXTENDS Integers, Sequences, FiniteSets, TLC

\* Bounds of the model
MaxWidgets == 2
MaxIds == 1
MaxMsgs == 2

Widgets == 1..MaxWidgets
Nodes == Widgets

\* The JavaScript value undefined, and its conversion to a string
Undefined == "<undefined>"
ToStr(v) == IF v = Undefined THEN "undefined" ELSE v
Truthy(v) == v # Undefined /\ v # ""

\* Element ids of the page, message texts of the callers
Ids == {ToString(i) : i \in 1..MaxIds}
Msgs == {"message " \o ToString(i) : i \in 1..MaxMsgs}

\* attach's target: omitted, document.body, or a jQuery-wrapped element
\* whose id attribute is a non-empty string, the empty string, or absent
Omitted == [kind |-> "omitted", id |-> Undefined]
Body == [kind |-> "body", id |-> Undefined]
Element(i) == [kind |-> "element", id |-> i]
Targets == {Omitted, Body} \cup {Element(i) : i \in Ids \cup {"", Undefined}}

GlobalKey == "_global_smart_status_"
InitialDataId == "smart-"
LoadingMsg == "Loading..."
SpinnerClasses == {"fa", "fa-spinner", "fa-spin"}

VARIABLES
    created,    \* number of widgets constructed so far (widgets 1..created)
    wrapper,    \* widget -> _dom_self.wrapper (sequence of nodes)
    spinner,    \* widget -> _dom_self.spinner (nodes whose spinner span it holds)
    banner,     \* widget -> _dom_self.banner (nodes whose banner span it holds)
    body,       \* the wrappers that are children of document.body, in order
    dataId,     \* node -> data-id attribute of the wrapper
    html,       \* node -> content of the banner span
    cls,        \* node -> class list of the spinner span
    hidden,     \* node -> the wrapper was faded out
    clickable,  \* node -> the close span still has its click handler
    registry,   \* window._smart_statuses: key -> widget, DOMAIN = keys present
    last,       \* the last call and what it returned
    destroyed   \* history (SpecDestroy): widgets whose destroy() ran, not attached since

dom == <<wrapper, spinner, banner, body, dataId, html, cls, hidden, clickable, registry>>
vars == <<created, wrapper, spinner, banner, body, dataId, html, cls, hidden, clickable,
          registry, last, destroyed>>

\* The mutable state the methods act on, as one record
Cur ==
    [wrapper |-> wrapper, spinner |-> spinner, banner |-> banner, body |-> body,
     dataId |-> dataId, html |-> html, cls |-> cls, hidden |-> hidden,
     clickable |-> clickable, registry |-> registry]

Commit(s) ==
    /\ wrapper' = s.wrapper
    /\ spinner' = s.spinner
    /\ banner' = s.banner
    /\ body' = s.body
    /\ dataId' = s.dataId
    /\ html' = s.html
    /\ cls' = s.cls
    /\ hidden' = s.hidden
    /\ clickable' = s.clickable
    /\ registry' = s.registry

Range(q) == {q[i] : i \in 1..Len(q)}

----------------------------------------------------------------------------
\* jQuery operations on a collection q of nodes, in state s

\* q.attr('data-id')
AttrDataId(s, q) == IF q = <<>> THEN Undefined ELSE s.dataId[Head(q)]

\* q.attr('data-id', v)
SetAttrDataId(s, q, v) ==
    [s EXCEPT !.dataId = [n \in Nodes |-> IF n \in Range(q) THEN v ELSE @[n]]]

\* q.appendTo(document.body): every element becomes the last child of body
AppendToBody(s, q) ==
    [s EXCEPT !.body = SelectSeq(@, LAMBDA n : n \notin Range(q)) \o q]

\* q.remove(): every element leaves the document, and jQuery drops the event
\* handlers bound in its subtree (the click handler of the close span)
Remove(s, q) ==
    [s EXCEPT !.body = SelectSeq(@, LAMBDA n : n \notin Range(q)),
              !.clickable = [n \in Nodes |-> IF n \in Range(q) THEN FALSE ELSE @[n]]]

\* $('div[data-id="' + key + '"]'): the wrappers in the document, in order
SelectByDataId(s, key) == SelectSeq(s.body, LAMBDA n : s.dataId[n] = key)

\* q.find('span.fa-spinner'): spinner spans that still have the class
FindSpinner(s, q) == SelectSeq(q, LAMBDA n : "fa-spinner" \in s.cls[n])

\* q.find('span.smart-status-msg'): the banner span of every wrapper of q
FindBanner(s, q) == q

\* q.html()
GetHtml(s, q) == IF q = <<>> THEN Undefined ELSE s.html[Head(q)]

\* q.html(v): with v undefined jQuery reads instead of writing
SetHtml(s, q, v) ==
    IF v = Undefined THEN s
    ELSE [s EXCEPT !.html = [n \in Nodes |-> IF n \in Range(q) THEN v ELSE @[n]]]

\* q.removeClass(c), q.addClass(c), q.attr('class', list)
RemoveClass(s, q, c) ==
    [s EXCEPT !.cls = [n \in Nodes |-> IF n \in Range(q) THEN @[n] \ {c} ELSE @[n]]]
AddClass(s, q, c) ==
    [s EXCEPT !.cls = [n \in Nodes |-> IF n \in Range(q) THEN @[n] \cup {c} ELSE @[n]]]
SetClasses(s, q, list) ==
    [s EXCEPT !.cls = [n \in Nodes |-> IF n \in Range(q) THEN list ELSE @[n]]]

\* (mutant) a fade-out that also takes the elements out of the document, with
\* the registry entries under their keys
FadeOutRemoves(s, q) ==
    [s EXCEPT !.hidden = [n \in Nodes |-> IF n \in Range(q) THEN TRUE ELSE @[n]],
              !.body = SelectSeq(@, LAMBDA n : n \notin Range(q)),
              !.registry = [k \in DOMAIN @ \ {s.dataId[n] : n \in Range(q)} |-> @[k]]]

\* q.fadeOut(..), q.fadeIn(..): the state the animation ends in
FadeOut(s, q) ==
    [s EXCEPT !.hidden = [n \in Nodes |-> IF n \in Range(q) THEN TRUE ELSE @[n]]]
FadeIn(s, q) ==
    [s EXCEPT !.hidden = [n \in Nodes |-> IF n \in Range(q) THEN FALSE ELSE @[n]]]

----------------------------------------------------------------------------
\* window._smart_statuses

\* SmartStatus.prototype.find: the widget stored under id, or false (0)
Find(s, id) == IF id \in DOMAIN s.registry THEN s.registry[id] ELSE 0

\* (mutant) a store that keeps the widget a key already maps to
StoreKeepsFirst(s, key, w) ==
    [s EXCEPT !.registry =
        [k \in DOMAIN @ \cup {key} |-> IF k = key /\ k \notin DOMAIN @ THEN w ELSE @[k]]]

\* window._smart_statuses[key] = w
Store(s, key, w) ==
    [s EXCEPT !.registry =
        [k \in DOMAIN @ \cup {key} |-> IF k = key THEN w ELSE @[k]]]

\* delete window._smart_statuses[key]
Delete(s, key) ==
    [s EXCEPT !.registry = [k \in DOMAIN @ \ {ToStr(key)} |-> @[k]]]

----------------------------------------------------------------------------
\* The methods, as functions from a state to a state (and a return value)

\* get msg / set msg
GetMsg(s, w) == GetHtml(s, s.banner[w])
SetMsg(s, w, str) == SetHtml(s, s.banner[w], str)

\* destroy()
DestroyOp(s, w) ==
    LET s1 == Remove(s, s.wrapper[w])
    IN  Delete(s1, AttrDataId(s1, s1.wrapper[w]))

\* The id attach uses for a target element
UseId(target) == "smart-" \o ToStr(target.id)

\* (mutant) attach that takes the target over whether or not overwrite is passed
AttachBranchIgnoringOverwrite(s, target, overwrite) ==
    IF target.id = "" THEN "invalid"
    ELSE IF Find(s, UseId(target)) = 0 THEN "free"
    ELSE "overwrite"

\* Which way attach goes for a target element
AttachBranch(s, target, overwrite) ==
    IF target.id = "" THEN "invalid"
    ELSE IF Find(s, UseId(target)) = 0 THEN "free"
    ELSE IF overwrite THEN "overwrite"
    ELSE "used"

\* Which way attach goes for the page
GlobalBranch(s) == IF Find(s, GlobalKey) = 0 THEN "free" ELSE "used"

\* (mutant) a used target handled like a target without id: the widget destroys itself
CannotAttachDestroys(s, w) == [s |-> DestroyOp(s, w), ret |-> 0, why |-> "used"]

\* "cannot attach": the target is used; nothing changes and attach returns false
CannotAttach(s, w) == [s |-> s, ret |-> 0, why |-> "used"]

\* attach(target, overwrite): [s |-> state after, ret |-> the widget or 0 for false,
\* why |-> the branch taken]
AttachOp(s, w, target, overwrite) ==
    IF target.kind = "element"
    THEN LET use_id == UseId(target)
             branch == AttachBranch(s, target, overwrite)
         IN  CASE branch = "invalid" ->
                    [s |-> DestroyOp(s, w), ret |-> 0, why |-> "invalid"]
               [] branch = "free" ->
                    LET s1 == AppendToBody(s, s.wrapper[w])
                        s2 == SetAttrDataId(s1, s1.wrapper[w], use_id)
                    IN  [s |-> Store(s2, use_id, w), ret |-> w, why |-> "free"]
               [] branch = "overwrite" ->
                    LET restore_msg == GetMsg(s, w)
                        found == SelectByDataId(s, use_id)
                        s1 == [s EXCEPT !.wrapper[w] = found,
                                        !.spinner[w] = FindSpinner(s, found),
                                        !.banner[w] = FindBanner(s, found)]
                        s2 == SetMsg(s1, w, restore_msg)
                    IN  [s |-> Store(s2, use_id, w), ret |-> w, why |-> "overwrite"]
               [] OTHER -> CannotAttach(s, w)
    ELSE IF GlobalBranch(s) = "free"
         THEN LET s1 == SetAttrDataId(s, s.wrapper[w], GlobalKey)
                  s2 == AppendToBody(s1, s1.wrapper[w])
              IN  [s |-> Store(s2, GlobalKey, w), ret |-> w, why |-> "free"]
         ELSE CannotAttach(s, w)

\* reset()
ResetOp(s, w) ==
    LET s1 == SetMsg(s, w, LoadingMsg)
    IN  SetClasses(s1, s1.spinner[w], SpinnerClasses)

\* show(txt)
ShowOp(s, w, txt) ==
    LET s1 == IF Truthy(txt) THEN SetMsg(s, w, txt) ELSE s
    IN  FadeIn(s1, s1.wrapper[w])

\* hide(duration)
HideOp(s, w) == FadeOut(s, s.wrapper[w])

\* The class final adds for the outcome
OutcomeClass(success) == IF success THEN "fa-check" ELSE "fa-exclamation-triangle"

\* final(txt, success)
FinalOp(s, w, txt, success) ==
    LET s1 == RemoveClass(RemoveClass(s, s.spinner[w], "fa-spinner"),
                          s.spinner[w], "fa-spin")
        s2 == SetHtml(s1, s1.banner[w], txt)
    IN  AddClass(s2, s2.spinner[w], OutcomeClass(success))

\* new SmartStatus(txt, target): the elements of widget w, then msg and attach
SetupOp(s, w) ==
    [s EXCEPT !.wrapper[w] = <<w>>, !.spinner[w] = <<w>>, !.banner[w] = <<w>>,
              !.dataId[w] = InitialDataId, !.html[w] = LoadingMsg,
              !.cls[w] = SpinnerClasses, !.hidden[w] = FALSE,
              !.clickable[w] = TRUE]

ConstructorOp(s, w, txt, target) ==
    LET s1 == SetupOp(s, w)
        s2 == IF Truthy(txt) THEN SetMsg(s1, w, txt) ELSE s1
    IN  IF target.kind # "omitted"
        THEN AttachOp(s2, w, target, FALSE)
        ELSE [s |-> s2, ret |-> w, why |-> "detached"]

----------------------------------------------------------------------------
\* The record of the last call: the method, the widget it was called on (for a
\* click, the node), what it returned (0 for false or nothing; for the
\* constructor, what its attach returned) and the branch attach took
Call(op, w, ret, why) == [op |-> op, w |-> w, ret |-> ret, why |-> why]

NoCall == Call("none", 0, 0, "none")

Init ==
    /\ created = 0
    /\ wrapper = [w \in Widgets |-> <<>>]
    /\ spinner = [w \in Widgets |-> <<>>]
    /\ banner = [w \in Widgets |-> <<>>]
    /\ body = <<>>
    /\ dataId = [n \in Nodes |-> InitialDataId]
    /\ html = [n \in Nodes |-> LoadingMsg]
    /\ cls = [n \in Nodes |-> SpinnerClasses]
    /\ hidden = [n \in Nodes |-> FALSE]
    /\ clickable = [n \in Nodes |-> FALSE]
    /\ registry = [k \in {} |-> 0]
    /\ last = NoCall
    /\ destroyed = {}

\* The widgets constructed so far
Constructed == 1..created

\* new SmartStatus(txt, target)
Construct(txt, target) ==
    /\ created < MaxWidgets
    /\ LET w == created + 1
           r == ConstructorOp(Cur, w, txt, target)
       IN  /\ created' = w
           /\ Commit(r.s)
           /\ last' = Call("new", w, r.ret, r.why)

\* w.attach(target, overwrite)
Attach(w, target, overwrite) ==
    /\ w \in Constructed
    /\ LET r == AttachOp(Cur, w, target, overwrite)
       IN  /\ Commit(r.s)
           /\ last' = Call("attach", w, r.ret, r.why)
    /\ UNCHANGED created

\* w.destroy()
Destroy(w) ==
    /\ w \in Constructed
    /\ Commit(DestroyOp(Cur, w))
    /\ last' = Call("destroy", w, 0, "none")
    /\ UNCHANGED created

\* w.reset()
Reset(w) ==
    /\ w \in Constructed
    /\ Commit(ResetOp(Cur, w))
    /\ last' = Call("reset", w, w, "none")
    /\ UNCHANGED created

\* w.show(txt)
Show(w, txt) ==
    /\ w \in Constructed
    /\ Commit(ShowOp(Cur, w, txt))
    /\ last' = Call("show", w, w, "none")
    /\ UNCHANGED created

\* w.hide(duration)
Hide(w) ==
    /\ w \in Constructed
    /\ Commit(HideOp(Cur, w))
    /\ last' = Call("hide", w, w, "none")
    /\ UNCHANGED created

\* w.final(txt, success)
Final(w, txt, success) ==
    /\ w \in Constructed
    /\ Commit(FinalOp(Cur, w, txt, success))
    /\ last' = Call("final", w, w, "none")
    /\ UNCHANGED created

\* The user clicks the close span of a wrapper shown in the document:
\* $(this).parent().fadeOut('slow')
Dismiss(n) ==
    /\ n \in Range(body)
    /\ ~hidden[n]
    /\ clickable[n]
    /\ Commit(FadeOut(Cur, <<n>>))
    /\ last' = Call("dismiss", n, 0, "none")
    /\ UNCHANGED created

\* The history of destroy(): a widget is destroyed by destroy(), also when attach
\* calls it for a target without id, until one of its attach calls succeeds
TrackDestroyed ==
    destroyed' =
        IF last'.op = "destroy" \/ last'.why = "invalid" THEN destroyed \cup {last'.w}
        ELSE IF last'.why \in {"free", "overwrite"} THEN destroyed \ {last'.w}
        ELSE destroyed

\* The targets of the specifications: every kind of target for the attach and
\* destroy life cycle, the page and the elements with an id for the display
LifecycleTargets == Targets
DisplayTargets == {Omitted} \cup {Element(i) : i \in Ids}

\* Life cycle: construction, attach, destroy and the close button, for every kind
\* of target (the message and the indicator stay as constructed)
Next ==
    \/ \E target \in LifecycleTargets : Construct(Undefined, target) /\ UNCHANGED destroyed
    \/ \E w \in Widgets, target \in LifecycleTargets, overwrite \in BOOLEAN :
            Attach(w, target, overwrite) /\ UNCHANGED destroyed
    \/ \E w \in Widgets : Destroy(w) /\ UNCHANGED destroyed
    \/ \E n \in Nodes : Dismiss(n) /\ UNCHANGED destroyed

Spec == Init /\ [][Next]_vars

\* Destroy: construction, attach and destroy for every kind of target, with the
\* history of which widgets are destroyed
NextDestroy ==
    \/ \E target \in LifecycleTargets : Construct(Undefined, target) /\ TrackDestroyed
    \/ \E w \in Widgets, target \in LifecycleTargets, overwrite \in BOOLEAN :
            Attach(w, target, overwrite) /\ TrackDestroyed
    \/ \E w \in Widgets : Destroy(w) /\ TrackDestroyed

SpecDestroy == Init /\ [][NextDestroy]_vars

\* Display: the message, the indicator and the visibility, through the methods
\* that set them and through attach, which changes the elements a widget holds
NextDisplay ==
    \/ \E txt \in Msgs \cup {Undefined}, target \in DisplayTargets :
            Construct(txt, target) /\ UNCHANGED destroyed
    \/ \E w \in Widgets, target \in DisplayTargets, overwrite \in BOOLEAN :
            Attach(w, target, overwrite) /\ UNCHANGED destroyed
    \/ \E w \in Widgets : Reset(w) /\ UNCHANGED destroyed
    \/ \E w \in Widgets, txt \in Msgs \cup {Undefined} :
            Show(w, txt) /\ UNCHANGED destroyed
    \/ \E w \in Widgets : Hide(w) /\ UNCHANGED destroyed
    \/ \E w \in Widgets, txt \in Msgs, success \in BOOLEAN :
            Final(w, txt, success) /\ UNCHANGED destroyed
    \/ \E n \in Nodes : Dismiss(n) /\ UNCHANGED destroyed

SpecDisplay == Init /\ [][NextDisplay]_vars

----------------------------------------------------------------------------
\* Notions the properties are stated in

InDocument(n) == n \in Range(body)

\* The keys widget w claims: those its containers in the document carry
ClaimedKeys(w) == {dataId[n] : n \in {m \in Range(wrapper[w]) : InDocument(m)}}

\* The containers some constructed widget holds
HeldNodes == UNION {Range(wrapper[w]) : w \in Constructed}

\* The key attach registers a target under
KeyOf(target) == IF target.kind = "element" THEN UseId(target) ELSE GlobalKey

\* The keys find can be asked for: those of the targets, and the key a fresh
\* container carries
Keys == {KeyOf(target) : target \in Targets} \cup {InitialDataId}

\* The registry with key mapped to w
RegistryWith(key, w) ==
    [k \in DOMAIN registry \cup {key} |-> IF k = key THEN w ELSE registry[k]]

\* What the indicator of widget w shows: the marks on the first span of its container
Marks(s, w) ==
    IF s.wrapper[w] = <<>> THEN {}
    ELSE s.cls[Head(s.wrapper[w])] \cap {"fa-spinner", "fa-check", "fa-exclamation-triangle"}

----------------------------------------------------------------------------
\* C1: a key is in the registry if and only if some constructed widget has a
\* container in the document that carries the key.
RegistryMatchesClaims ==
    /\ \A k \in DOMAIN registry : \E w \in Constructed : k \in ClaimedKeys(w)
    /\ \A w \in Constructed : ClaimedKeys(w) \subseteq DOMAIN registry

\* C2: the document holds at most one container per key, and a container that
\* some widget holds belongs to the widget the registry maps its key to.
OneContainerPerKey ==
    \A n \in Range(body) :
        /\ \A m \in Range(body) : dataId[m] = dataId[n] => m = n
        /\ n \in HeldNodes =>
              /\ dataId[n] \in DOMAIN registry
              /\ n \in Range(wrapper[registry[dataId[n]]])

\* C3: attach without overwrite to an element with a non-empty id (called directly
\* or by the constructor) succeeds exactly when the key "smart-"+id is free: then
\* it returns the widget and registers it under the key; when the key is taken it
\* returns false and leaves the registry unchanged.  A taken key stays taken
\* until a destroy() runs (called directly, or by attach on a target without id).
AttachOncePerId ==
    [][/\ \A w \in Widgets, i \in Ids :
              (\/ last'.op = "attach" /\ last'.w = w /\ Attach(w, Element(i), FALSE)
               \/ /\ last'.op = "new" /\ last'.w = w
                  /\ \E txt \in Msgs \cup {Undefined} : Construct(txt, Element(i)))
              => IF UseId(Element(i)) \notin DOMAIN registry
                 THEN /\ last'.why = "free"
                      /\ last'.ret = w
                      /\ registry' = RegistryWith(UseId(Element(i)), w)
                 ELSE /\ last'.why = "used"
                      /\ last'.op = "attach" => last'.ret = 0
                      /\ registry' = registry
       /\ \A k \in DOMAIN registry :
              k \notin DOMAIN registry' => last'.op = "destroy" \/ last'.why = "invalid"
      ]_vars

\* C3 witness: a widget is registered under the key of an element, and an attach
\* to that element without overwrite has just returned false.
AttachOncePerIdWitness ==
    /\ last.op = "attach" /\ last.why = "used" /\ last.ret = 0
    /\ \E i \in Ids : DOMAIN registry = {UseId(Element(i))}

\* C4: attach to an element whose id is empty or absent (called directly or by
\* the constructor) fails: attach returns false, no entry appears under the key
\* of that target, the widget holds no registry entry and its container is not in
\* the document.
NoIdAttachFails ==
    [][\A w \in Widgets, i \in {"", Undefined} :
          (\/ /\ last'.op = "attach" /\ last'.w = w
              /\ \E overwrite \in BOOLEAN : Attach(w, Element(i), overwrite)
           \/ /\ last'.op = "new" /\ last'.w = w
              /\ \E txt \in Msgs \cup {Undefined} : Construct(txt, Element(i)))
          => /\ last'.why = "invalid"
             /\ last'.op = "attach" => last'.ret = 0
             /\ UseId(Element(i)) \notin DOMAIN registry'
             /\ \A k \in DOMAIN registry' : registry'[k] # w
             /\ \A n \in Range(wrapper'[w]) : n \notin Range(body')
      ]_vars

\* C5: an attach that fails because the target is used (an element's key without
\* overwrite, or the key of the page) returns false and changes nothing: the
\* registry, the document and every widget and element stay as they were.  From
\* the constructor, the registry, the document and the existing widgets and
\* elements stay as they were.
UsedAttachChangesNothing ==
    [][/\ (last'.op = "attach" /\ last'.why = "used")
            => last'.ret = 0 /\ UNCHANGED <<created, dom>>
       /\ (last'.op = "new" /\ last'.why = "used")
            => /\ UNCHANGED <<registry, body>>
               /\ \A w \in Constructed :
                     /\ wrapper'[w] = wrapper[w] /\ spinner'[w] = spinner[w]
                     /\ banner'[w] = banner[w] /\ dataId'[w] = dataId[w]
                     /\ html'[w] = html[w] /\ cls'[w] = cls[w] /\ hidden'[w] = hidden[w]
                     /\ clickable'[w] = clickable[w]
      ]_vars

\* C5 witness: a widget that is itself attached has just failed to attach to a
\* used target, with the page and an element both taken.
UsedAttachWitness ==
    /\ last.op = "attach" /\ last.why = "used" /\ last.ret = 0
    /\ ClaimedKeys(last.w) # {}
    /\ GlobalKey \in DOMAIN registry
    /\ \E i \in Ids : UseId(Element(i)) \in DOMAIN registry

\* C6: at most one container in the document carries the key of the page, the
\* registry maps that key to the widget holding the container, and an attach to
\* the page succeeds only when the key is free.
SentinelHolders == {n \in Range(body) : dataId[n] = GlobalKey}

SentinelHeldOnce ==
    /\ Cardinality(SentinelHolders) <= 1
    /\ \A n \in SentinelHolders \cap HeldNodes :
          /\ GlobalKey \in DOMAIN registry
          /\ n \in Range(wrapper[registry[GlobalKey]])

OnePageWidget ==
    [][/\ SentinelHeldOnce'
       /\ \A w \in Widgets, target \in {Omitted, Body}, overwrite \in BOOLEAN :
              (last'.op = "attach" /\ last'.ret = w /\ Attach(w, target, overwrite))
              => GlobalKey \notin DOMAIN registry
      ]_vars

\* C7: after w.destroy(), every element the registry had w registered for (by a
\* successful attach of w) is free again: an attach to it without overwrite, by
\* any widget, succeeds.
DestroyFreesTargets ==
    [][\A w \in Widgets : Destroy(w) =>
          \A i \in Ids : Find(Cur, UseId(Element(i))) = w =>
              \A v \in Constructed : AttachOp(Cur', v, Element(i), FALSE).ret = v
      ]_vars

\* C8: destroy() on a widget that is already destroyed changes neither the
\* registry nor the document.
SecondDestroyChangesNothing ==
    [][\A w \in destroyed : Destroy(w) => UNCHANGED <<registry, body>>]_vars

\* C9: after final(txt, success) the message of the widget is txt and its
\* indicator shows exactly the mark of the outcome: the check for success, the
\* warning triangle for failure.
FinalShowsOutcome ==
    [][\A w \in Widgets, txt \in Msgs, success \in BOOLEAN :
          Final(w, txt, success)
          => /\ GetMsg(Cur', w) = txt
             /\ Marks(Cur', w) = {OutcomeClass(success)}
      ]_vars

\* C10: after reset() the message of the widget is "Loading...".
ResetShowsLoading ==
    [][\A w \in Widgets : Reset(w) => GetMsg(Cur', w) = LoadingMsg]_vars

\* C11: after reset() the indicator of a widget that holds a container shows the
\* spinner and no mark of an outcome, whatever the widget did before; in
\* particular after it attached with overwrite to the element of a widget that
\* final() had been called on.
ResetRestoresSpinner ==
    [][\A w \in Widgets :
          (last'.op = "reset" /\ last'.w = w /\ Reset(w) /\ wrapper[w] # <<>>)
          => Marks(Cur', w) = {"fa-spinner"}
      ]_vars

\* C12: when a widget whose message is m attaches with overwrite to an element
\* whose key is in the registry, attach returns the widget, find(key) is the
\* widget afterwards, and the message of the widget is still m.
OverwriteKeepsCallersMessage ==
    [][\A w \in Widgets, i \in Ids :
          (/\ last'.op = "attach" /\ last'.w = w
           /\ Attach(w, Element(i), TRUE)
           /\ UseId(Element(i)) \in DOMAIN registry
           /\ GetMsg(Cur, w) # Undefined)
          => /\ last'.ret = w
             /\ Find(Cur', UseId(Element(i))) = w
             /\ GetMsg(Cur', w) = GetMsg(Cur, w)
      ]_vars

\* C13: hide() and a click on the close span only make containers invisible:
\* hide() those the widget holds, the click the one of the span.  The message,
\* the indicator, the registry, the document and what every widget holds stay
\* as they were, and no other container changes its visibility.
HidingOnlyHides ==
    [][/\ last'.op \in {"hide", "dismiss"}
            => UNCHANGED <<created, wrapper, spinner, banner, body, dataId, html, cls,
                           clickable, registry>>
       /\ \A w \in Widgets :
              (last'.op = "hide" /\ last'.w = w /\ Hide(w))
              => \A n \in Nodes :
                    hidden'[n] = IF n \in Range(wrapper[w]) THEN TRUE ELSE hidden[n]
       /\ \A m \in Nodes :
              (last'.op = "dismiss" /\ last'.w = m /\ Dismiss(m))
              => \A n \in Nodes : hidden'[n] = IF n = m THEN TRUE ELSE hidden[n]
      ]_vars

\* C13 witness: hide() has just made invisible the container of a registered
\* widget that final() was called on, while the other widget's container, also
\* registered, is shown.
HidingOnlyHidesWitness ==
    /\ last.op = "hide"
    /\ \E n \in Range(wrapper[last.w]) :
          /\ InDocument(n) /\ hidden[n]
          /\ dataId[n] \in DOMAIN registry /\ registry[dataId[n]] = last.w
          /\ html[n] \in Msgs
          /\ Marks(Cur, last.w) = {"fa-check"}
    /\ \E m \in Range(body) : ~hidden[m] /\ m \notin Range(wrapper[last.w])

\* C14: find(key) is the widget whose attach to the key succeeded most recently,
\* unless a destroy has removed the key since, and false when there is none.
\* Step by step: a successful attach of w to a target (called directly or by the
\* constructor) makes find(key of the target) = w and changes find for no other
\* key; a destroy() (called directly, or by attach on a target without id) can
\* only turn find(key) to false; every other call leaves find(key) as it was.
FindIsLastAttach ==
    [][/\ \A w \in Widgets, target \in LifecycleTargets :
              (/\ last'.op \in {"attach", "new"} /\ last'.w = w
               /\ last'.why \in {"free", "overwrite"}
               /\ \/ \E overwrite \in BOOLEAN : Attach(w, target, overwrite)
                  \/ Construct(Undefined, target))
              => \A k \in Keys \cup DOMAIN registry \cup DOMAIN registry' :
                    Find(Cur', k) = IF k = KeyOf(target) THEN w ELSE Find(Cur, k)
       /\ (last'.op = "destroy" \/ last'.why = "invalid")
            => \A k \in Keys \cup DOMAIN registry \cup DOMAIN registry' :
                  Find(Cur', k) \in {Find(Cur, k), 0}
       /\ (last'.op = "dismiss" \/ last'.why \in {"used", "detached"})
            => \A k \in Keys \cup DOMAIN registry \cup DOMAIN registry' :
                  Find(Cur', k) = Find(Cur, k)
      ]_vars

\* C14 witness: an attach with overwrite has just succeeded on the key of an
\* element another widget was attached to, and find(key) is the widget that
\* attached last.
FindIsLastAttachWitness ==
    /\ last.op = "attach" /\ last.why = "overwrite" /\ last.ret = last.w
    /\ \E i \in Ids : Find(Cur, UseId(Element(i))) = last.w
    /\ \E v \in Constructed :
          v # last.w /\ wrapper[v] # <<>> /\ wrapper[v] = wrapper[last.w]

\* C15: the registry maps at most one key to a widget, and that key is the one
\* the container of the widget carries.
KeysOfWidget(w) == {k \in DOMAIN registry : registry[k] = w}

OneKeyPerWidget ==
    \A w \in Constructed :
        /\ Cardinality(KeysOfWidget(w)) <= 1
        /\ \A k \in KeysOfWidget(w) : k = AttrDataId(Cur, wrapper[w])

\* C16: w.destroy() removes no entry of another widget: every key the registry
\* maps to a widget other than w before the call is mapped to the same widget
\* after it.
DestroyKeepsOthersEntries ==
    [][\A w \in Widgets :
          (last'.op = "destroy" /\ last'.w = w /\ Destroy(w))
          => \A k \in DOMAIN registry :
                registry[k] # w => k \in DOMAIN registry' /\ registry'[k] = registry[k]
      ]_vars

----------------------------------------------------------------------------
TypeOK ==
    /\ created \in 0..MaxWidgets
    /\ \A w \in Widgets : Range(wrapper[w]) \subseteq Nodes
    /\ Range(body) \subseteq Nodes
    /\ \A k \in DOMAIN registry : registry[k] \in Constructed
====
